---- MODULE Spec2Model ----
(***************************************************************************)
(* A model of memory_lib (rust/memory_lib/src/lib.rs, span_example.rs):    *)
(* the raw allocation layer, the SafeBuffer wrapper that discharges its    *)
(* preconditions, and the slice views handed out by SafeBuffer and by      *)
(* DataContainer.                                                          *)
(*                                                                         *)
(* The heap is a sequence of allocation records; a pointer is an index     *)
(* into it.  An allocation's cells are a sequence, cell k+1 holding the    *)
(* element at offset k.  Undefined behaviour of the raw layer (a read or   *)
(* write outside the allocation or after it was freed, a mismatched free)  *)
(* is a set of outcomes and raises the history flag ub.                    *)
(*                                                                         *)
(* Rust's borrow rules are part of the program: a method taking &self can  *)
(* be called only while no exclusive borrow of the object is alive, one    *)
(* taking &mut self (and the drop of the object) only while no borrow at   *)
(* all is alive.  A returned slice keeps the borrow of its receiver alive  *)
(* for as long as the slice is alive when its lifetime is the receiver's.  *)
(***************************************************************************)
EXTENDS Integers, Sequences, FiniteSets, Bags, TLC

\* ------------------------------------------------------------------ bounds

\* Largest buffer / container length constructed under Spec.
MaxLen == 2
\* Allocations made over one behaviour (buffers constructed one after another).
MaxAllocs == 2
\* Views alive at the same time.
MaxViews == 2
\* Width of usize in bits (scaled down from 64; arithmetic keeps this width).
UsizeBits == 7
\* Largest buffer / container length under SpecViews.
MaxLenWide == 10

RECURSIVE Pow2(_)
Pow2(n) == IF n = 0 THEN 1 ELSE 2 * Pow2(n - 1)

UsizeMax == Pow2(UsizeBits) - 1
IsizeMax == Pow2(UsizeBits - 1) - 1

\* The i32 values tried: the code never inspects an element's value, so zero
\* and one other value stand for all of them.
I32Sample == {0, 1}

\* usize arguments tried against an object of length at most n: everything up
\* to n + 1, and the top of the usize range.
UsizeSample(n) == (0..(n + 1)) \cup {UsizeMax}

VARIABLES
    heap,    \* the allocator's state: a sequence of allocation records
    obj,     \* which object is alive: "none", "buffer" or "container"
    buf,     \* the live SafeBuffer's fields [ptr, len]
    cdata,   \* the live DataContainer's Vec<i32>
    views,   \* the slices alive: a bag of views
    ret,     \* the last call: its name, arguments and result
    calls,   \* the raw-layer calls the last call issued
    ub,      \* history: a raw-layer precondition was violated
    uaf      \* history: a view was used after its source was destroyed

vars == <<heap, obj, buf, cdata, views, ret, calls, ub, uaf>>

NULL == 0
NoBuf == [ptr |-> NULL, len |-> 0]
NoView == [kind |-> "none", src |-> "none", ptr |-> NULL, start |-> 0, len |-> 0,
           tied |-> FALSE]

Ret(op, a, b, tag, val, view) ==
    [op |-> op, a |-> a, b |-> b, tag |-> tag, val |-> val, view |-> view]

Call(fn, ptr, off, count) == [fn |-> fn, ptr |-> ptr, off |-> off, count |-> count]

\* ------------------------------------------------------- raw allocation layer

\* An allocation: its element count and cells while it is live; frees counts the
\* deallocations of it, sizeOk whether each was passed the allocation's count.
\* A freed allocation keeps neither cells nor count.
AllocRec(count, cells) ==
    [count |-> count, cells |-> cells, state |-> "live", frees |-> 0, sizeOk |-> TRUE]

\* Layout::array::<i32>(count): the size count * 4 must not exceed isize::MAX.
LayoutOk(count) == count * 4 <= IsizeMax

raw_alloc_NullUnchecked(h, count) ==
    IF ~LayoutOk(count)
    THEN {[tag |-> "Panic", heap |-> h, ptr |-> NULL, ub |-> FALSE]}
    ELSE {[tag |-> "Ok", heap |-> h, ptr |-> NULL, ub |-> (count = 0)]}
         \cup {[tag |-> "Ok", heap |-> Append(h, AllocRec(count, g)),
                ptr |-> Len(h) + 1, ub |-> (count = 0)]
               : g \in [1..count -> I32Sample]}

\* raw_alloc(count): panics on an invalid layout or a null return of the
\* allocator; otherwise a fresh allocation whose contents are unspecified.
\* A zero-sized request is undefined behaviour of the global allocator.
raw_alloc(h, count) ==
    IF ~LayoutOk(count)
    THEN {[tag |-> "Panic", heap |-> h, ptr |-> NULL, ub |-> FALSE]}
    ELSE {[tag |-> "Panic", heap |-> h, ptr |-> NULL, ub |-> (count = 0)]}
         \cup {[tag |-> "Ok", heap |-> Append(h, AllocRec(count, g)),
                ptr |-> Len(h) + 1, ub |-> (count = 0)]
               : g \in [1..count -> I32Sample]}

\* The raw layer's precondition for an access at ptr + off.
RawValid(h, ptr, off) ==
    /\ ptr \in 1..Len(h)
    /\ h[ptr].state = "live"
    /\ off >= 0
    /\ off < h[ptr].count

\* raw_dealloc(ptr, count): frees; a free of a freed allocation or with another
\* count than the allocation's is undefined behaviour.
DeallocValid(h, ptr, count) ==
    /\ ptr \in 1..Len(h)
    /\ h[ptr].state = "live"
    /\ h[ptr].count = count

raw_dealloc(h, ptr, count) ==
    IF ptr \in 1..Len(h)
    THEN [h EXCEPT ![ptr] = [count |-> 0, cells |-> <<>>, state |-> "freed",
                             frees |-> @.frees + 1,
                             sizeOk |-> (@.sizeOk /\ @.state = "live" /\ @.count = count)]]
    ELSE h

\* unsafe_free(ptr, count) forwards to raw_dealloc.
unsafe_free(h, ptr, count) == raw_dealloc(h, ptr, count)

\* unsafe_read(ptr, offset) == *ptr.add(offset): the set of values the read can
\* yield (any value when the precondition is violated).
unsafe_read(h, ptr, off) ==
    IF RawValid(h, ptr, off) THEN {h[ptr].cells[off + 1]} ELSE I32Sample

\* unsafe_write(ptr, offset, value) == *ptr.add(offset) = value: the set of heaps
\* the write can leave (when the precondition is violated: nothing visible, or
\* any cell of a live allocation overwritten).
unsafe_write(h, ptr, off, v) ==
    IF RawValid(h, ptr, off)
    THEN {[h EXCEPT ![ptr].cells[off + 1] = v]}
    ELSE {h} \cup {[h EXCEPT ![q].cells[k] = v] :
                     <<q, k>> \in {<<q2, k2>> \in (1..Len(h)) \X (1..UsizeMax) :
                                     h[q2].state = "live" /\ k2 <= h[q2].count}}

\* for i in 0..count { ptr.add(i).write(0) }
ZeroFillOffByOne(cells, count) ==
    [i \in DOMAIN cells |-> IF i - 1 \in 1..(count - 1) THEN 0 ELSE cells[i]]

ZeroFill(cells, count) ==
    [i \in DOMAIN cells |-> IF i - 1 \in 0..(count - 1) THEN 0 ELSE cells[i]]

\* mid_level_alloc_zeroed(count): assert!(count > 0), raw_alloc, zero every
\* element.  The set of outcomes, each with the raw calls issued.
mid_level_alloc_zeroed(h, count) ==
    IF ~(count > 0)
    THEN {[tag |-> "Panic", heap |-> h, ptr |-> NULL, ub |-> FALSE, calls |-> <<>>]}
    ELSE {[tag |-> r.tag,
           heap |-> IF r.tag = "Ok"
                    THEN [r.heap EXCEPT ![r.ptr].cells = ZeroFill(@, count)]
                    ELSE r.heap,
           ptr |-> r.ptr,
           ub |-> r.ub,
           calls |-> <<Call("raw_alloc", r.ptr, 0, count)>>
                     \o (IF r.tag = "Ok"
                         THEN [i \in 1..count |-> Call("write", r.ptr, i - 1, 0)]
                         ELSE <<>>)]
          : r \in raw_alloc(h, count)}

\* ------------------------------------------------------------ borrow rules

\* The receiver of each method, from its signature, and whether the slice it
\* returns carries the receiver's lifetime (the elided lifetime of -> &[i32]).
Recv_len == "shared"
Recv_get == "shared"
Recv_set == "mut"
Recv_as_slice == "shared"
Recv_as_mut_slice_Shared == "shared"
Recv_as_mut_slice == "mut"
Recv_get_slice == "shared"
Recv_drop == "mut"
Recv_first_half == "shared"
Recv_first_half_mut == "mut"
Recv_get_range == "shared"

SafeBufferSliceStatic == FALSE
SafeBufferSliceTied == TRUE
DataContainerSliceTied == TRUE

\* Whether a borrow of the live object of this kind is accepted: &mut self
\* needs no borrow alive, &self no exclusive borrow alive.
CanBorrow(kind) ==
    IF kind = "mut"
    THEN \A v \in BagToSet(views) : ~v.tied
    ELSE \A v \in BagToSet(views) : v.tied => v.kind # "mut"

View(kind, src, ptr, start, len, tied) ==
    [kind |-> kind, src |-> src, ptr |-> ptr, start |-> start, len |-> len,
     tied |-> tied]

\* The views alive after one more / one fewer v.
Borrowed(vs, v) == vs (+) SetToBag({v})

Released(vs, v) == vs (-) SetToBag({v})

\* ---------------------------------------------------------------- SafeBuffer

\* SafeBuffer::get: None when index >= len, else Some(unsafe_read(ptr, index)).
get_Unchecked(h, b, index) ==
    {[tag |-> "Some", val |-> v,
      calls |-> <<Call("unsafe_read", b.ptr, index, 0)>>,
      ub |-> ~RawValid(h, b.ptr, index)] : v \in unsafe_read(h, b.ptr, index)}

get_OffByOne(h, b, index) ==
    IF index > b.len
    THEN {[tag |-> "None", val |-> 0, calls |-> <<>>, ub |-> FALSE]}
    ELSE {[tag |-> "Some", val |-> v,
           calls |-> <<Call("unsafe_read", b.ptr, index, 0)>>,
           ub |-> ~RawValid(h, b.ptr, index)] : v \in unsafe_read(h, b.ptr, index)}

get(h, b, index) ==
    IF index >= b.len
    THEN {[tag |-> "None", val |-> 0, calls |-> <<>>, ub |-> FALSE]}
    ELSE {[tag |-> "Some", val |-> v,
           calls |-> <<Call("unsafe_read", b.ptr, index, 0)>>,
           ub |-> ~RawValid(h, b.ptr, index)] : v \in unsafe_read(h, b.ptr, index)}

\* SafeBuffer::set: Err when index >= len, else unsafe_write(ptr, index, value).
set_WrongOffset(h, b, index, value) ==
    IF index >= b.len
    THEN {[tag |-> "Err", heap |-> h, calls |-> <<>>, ub |-> FALSE]}
    ELSE {[tag |-> "Ok", heap |-> h2,
           calls |-> <<Call("unsafe_write", b.ptr, 0, 0)>>,
           ub |-> ~RawValid(h, b.ptr, 0)]
          : h2 \in unsafe_write(h, b.ptr, 0, value)}

set_OffByOne(h, b, index, value) ==
    IF index > b.len
    THEN {[tag |-> "Err", heap |-> h, calls |-> <<>>, ub |-> FALSE]}
    ELSE {[tag |-> "Ok", heap |-> h2,
           calls |-> <<Call("unsafe_write", b.ptr, index, 0)>>,
           ub |-> ~RawValid(h, b.ptr, index)]
          : h2 \in unsafe_write(h, b.ptr, index, value)}

set(h, b, index, value) ==
    IF index >= b.len
    THEN {[tag |-> "Err", heap |-> h, calls |-> <<>>, ub |-> FALSE]}
    ELSE {[tag |-> "Ok", heap |-> h2,
           calls |-> <<Call("unsafe_write", b.ptr, index, 0)>>,
           ub |-> ~RawValid(h, b.ptr, index)]
          : h2 \in unsafe_write(h, b.ptr, index, value)}

\* usize::saturating_add, and the wrapping sum a plain + gives in release builds.
wrapping_add(a, b) == (a + b) % (UsizeMax + 1)

saturating_add(a, b) == IF a + b > UsizeMax THEN UsizeMax ELSE a + b

\* SafeBuffer::get_slice(start, len): None when start.saturating_add(len) >
\* self.len, else Some(from_raw_parts(ptr.add(start), len)).
get_slice_EndExclusive(b, start, len) ==
    IF saturating_add(start, len) > b.len
    THEN [tag |-> "None", view |-> NoView, calls |-> <<>>]
    ELSE [tag |-> "Some",
          view |-> View("shared", "buffer", b.ptr, start, len - start, SafeBufferSliceTied),
          calls |-> <<Call("from_raw_parts", b.ptr, start, len - start)>>]

get_slice(b, start, len) ==
    IF saturating_add(start, len) > b.len
    THEN [tag |-> "None", view |-> NoView, calls |-> <<>>]
    ELSE [tag |-> "Some",
          view |-> View("shared", "buffer", b.ptr, start, len, SafeBufferSliceTied),
          calls |-> <<Call("from_raw_parts", b.ptr, start, len)>>]

\* SafeBuffer::as_slice / as_mut_slice: from_raw_parts(_mut)(ptr, len).
as_slice(b) == View("shared", "buffer", b.ptr, 0, b.len, SafeBufferSliceTied)

as_mut_slice(b) == View("mut", "buffer", b.ptr, 0, b.len, SafeBufferSliceTied)

\* impl Drop for SafeBuffer: unsafe_free(self.ptr, self.len).
drop_Leak(h, b) == h

drop_TwoFrees(h, b) == unsafe_free(unsafe_free(h, b.ptr, b.len), b.ptr, b.len)

drop(h, b) == unsafe_free(h, b.ptr, b.len)

SafeBuffer_new_Unchecked(len) ==
    /\ obj = "none"
    /\ Len(heap) < MaxAllocs
    /\ \E r \in raw_alloc(heap, len) :
         /\ heap' = IF r.tag = "Ok"
                    THEN [r.heap EXCEPT ![r.ptr].cells = ZeroFill(@, len)]
                    ELSE r.heap
         /\ calls' = <<Call("raw_alloc", r.ptr, 0, len)>>
         /\ ub' = (ub \/ r.ub)
         /\ IF r.tag = "Ok"
            THEN /\ obj' = "buffer"
                 /\ buf' = [ptr |-> r.ptr, len |-> len]
                 /\ ret' = Ret("new", len, 0, "Ok", 0, NoView)
            ELSE /\ ret' = Ret("new", len, 0, "Panic", 0, NoView)
                 /\ UNCHANGED <<obj, buf>>
    /\ UNCHANGED <<cdata, views, uaf>>

\* SafeBuffer::new(len): assert!(len > 0); ptr = mid_level_alloc_zeroed(len).
SafeBuffer_new(len) ==
    /\ obj = "none"
    /\ Len(heap) < MaxAllocs
    /\ IF ~(len > 0)
       THEN /\ ret' = Ret("new", len, 0, "Panic", 0, NoView)
            /\ calls' = <<>>
            /\ UNCHANGED <<heap, obj, buf, ub>>
       ELSE \E r \in mid_level_alloc_zeroed(heap, len) :
              /\ heap' = r.heap
              /\ calls' = r.calls
              /\ ub' = (ub \/ r.ub)
              /\ IF r.tag = "Ok"
                 THEN /\ obj' = "buffer"
                      /\ buf' = [ptr |-> r.ptr, len |-> len]
                      /\ ret' = Ret("new", len, 0, "Ok", 0, NoView)
                 ELSE /\ ret' = Ret("new", len, 0, "Panic", 0, NoView)
                      /\ UNCHANGED <<obj, buf>>
    /\ UNCHANGED <<cdata, views, uaf>>

\* SafeBuffer::len.
SafeBuffer_len ==
    /\ obj = "buffer"
    /\ CanBorrow(Recv_len)
    /\ ret' = Ret("len", 0, 0, "Value", buf.len, NoView)
    /\ calls' = <<>>
    /\ UNCHANGED <<heap, obj, buf, cdata, views, ub, uaf>>

\* SafeBuffer::is_empty: self.len == 0.
SafeBuffer_is_empty ==
    /\ obj = "buffer"
    /\ CanBorrow(Recv_len)
    /\ ret' = Ret("is_empty", 0, 0, IF buf.len = 0 THEN "True" ELSE "False", 0, NoView)
    /\ calls' = <<>>
    /\ UNCHANGED <<heap, obj, buf, cdata, views, ub, uaf>>

SafeBuffer_get(index) ==
    /\ obj = "buffer"
    /\ CanBorrow(Recv_get)
    /\ \E r \in get(heap, buf, index) :
         /\ ret' = Ret("get", index, 0, r.tag, r.val, NoView)
         /\ calls' = r.calls
         /\ ub' = (ub \/ r.ub)
    /\ UNCHANGED <<heap, obj, buf, cdata, views, uaf>>

SafeBuffer_set(index, value) ==
    /\ obj = "buffer"
    /\ CanBorrow(Recv_set)
    /\ \E r \in set(heap, buf, index, value) :
         /\ heap' = r.heap
         /\ ret' = Ret("set", index, value, r.tag, 0, NoView)
         /\ calls' = r.calls
         /\ ub' = (ub \/ r.ub)
    /\ UNCHANGED <<obj, buf, cdata, views, uaf>>

SafeBuffer_as_slice ==
    /\ obj = "buffer"
    /\ CanBorrow(Recv_as_slice)
    /\ BagCardinality(views) < MaxViews
    /\ views' = Borrowed(views, as_slice(buf))
    /\ ret' = Ret("as_slice", 0, 0, "View", buf.len, as_slice(buf))
    /\ calls' = <<Call("from_raw_parts", buf.ptr, 0, buf.len)>>
    /\ UNCHANGED <<heap, obj, buf, cdata, ub, uaf>>

SafeBuffer_as_mut_slice ==
    /\ obj = "buffer"
    /\ CanBorrow(Recv_as_mut_slice)
    /\ BagCardinality(views) < MaxViews
    /\ views' = Borrowed(views, as_mut_slice(buf))
    /\ ret' = Ret("as_mut_slice", 0, 0, "View", buf.len, as_mut_slice(buf))
    /\ calls' = <<Call("from_raw_parts_mut", buf.ptr, 0, buf.len)>>
    /\ UNCHANGED <<heap, obj, buf, cdata, ub, uaf>>

SafeBuffer_get_slice(start, len) ==
    /\ obj = "buffer"
    /\ CanBorrow(Recv_get_slice)
    /\ BagCardinality(views) < MaxViews
    /\ LET r == get_slice(buf, start, len) IN
         /\ views' = IF r.tag = "Some" THEN Borrowed(views, r.view) ELSE views
         /\ ret' = Ret("get_slice", start, len, r.tag, r.view.len, r.view)
         /\ calls' = r.calls
    /\ UNCHANGED <<heap, obj, buf, cdata, ub, uaf>>

\* The end of the buffer's lifetime: Drop::drop(&mut self) runs once.
SafeBuffer_drop ==
    /\ obj = "buffer"
    /\ CanBorrow(Recv_drop)
    /\ heap' = drop(heap, buf)
    /\ ub' = (ub \/ ~DeallocValid(heap, buf.ptr, buf.len))
    /\ obj' = "none"
    /\ buf' = NoBuf
    /\ ret' = Ret("drop", buf.ptr, buf.len, "Unit", 0, NoView)
    /\ calls' = <<Call("raw_dealloc", buf.ptr, 0, buf.len)>>
    /\ UNCHANGED <<cdata, views, uaf>>

\* ------------------------------------------------------------- DataContainer

\* DataContainer::as_slice: &self.data.
container_as_slice(data) ==
    View("shared", "container", NULL, 0, Len(data), DataContainerSliceTied)

\* DataContainer::first_half: mid = len / 2; &self.data[..mid].
first_half_RoundUp(data) ==
    View("shared", "container", NULL, 0, (Len(data) + 1) \div 2, DataContainerSliceTied)

first_half(data) ==
    View("shared", "container", NULL, 0, Len(data) \div 2, DataContainerSliceTied)

\* DataContainer::last_half: mid = len / 2; &self.data[mid..].
last_half(data) ==
    View("shared", "container", NULL, Len(data) \div 2,
         Len(data) - (Len(data) \div 2), DataContainerSliceTied)

\* DataContainer::first_half_mut: mid = len / 2; &mut self.data[..mid].
first_half_mut(data) ==
    View("mut", "container", NULL, 0, Len(data) \div 2, DataContainerSliceTied)

\* DataContainer::get_range(start, end): self.data.get(start..end), which is
\* None when start > end or end > len.
get_range(data, start, end) ==
    IF start > end \/ end > Len(data)
    THEN [tag |-> "None", view |-> NoView]
    ELSE [tag |-> "Some",
          view |-> View("shared", "container", NULL, start, end - start,
                        DataContainerSliceTied)]

\* DataContainer::new(data) takes ownership of the vector.
DataContainer_new(data) ==
    /\ obj = "none"
    /\ obj' = "container"
    /\ cdata' = data
    /\ ret' = Ret("container_new", Len(data), 0, "Ok", 0, NoView)
    /\ calls' = <<>>
    /\ UNCHANGED <<heap, buf, views, ub, uaf>>

DataContainer_len ==
    /\ obj = "container"
    /\ CanBorrow(Recv_len)
    /\ ret' = Ret("container_len", 0, 0, "Value", Len(cdata), NoView)
    /\ calls' = <<>>
    /\ UNCHANGED <<heap, obj, buf, cdata, views, ub, uaf>>

\* A DataContainer method returning a slice v through a receiver of kind recv.
ContainerView(op, recv, v) ==
    /\ obj = "container"
    /\ CanBorrow(recv)
    /\ BagCardinality(views) < MaxViews
    /\ views' = Borrowed(views, v)
    /\ ret' = Ret(op, 0, 0, "View", v.len, v)
    /\ calls' = <<>>
    /\ UNCHANGED <<heap, obj, buf, cdata, ub, uaf>>

DataContainer_as_slice == ContainerView("container_as_slice", Recv_as_slice, container_as_slice(cdata))

DataContainer_first_half == ContainerView("first_half", Recv_first_half, first_half(cdata))

DataContainer_last_half == ContainerView("last_half", Recv_first_half, last_half(cdata))

DataContainer_first_half_mut ==
    ContainerView("first_half_mut", Recv_first_half_mut, first_half_mut(cdata))

DataContainer_get_range(start, end) ==
    /\ obj = "container"
    /\ CanBorrow(Recv_get_range)
    /\ BagCardinality(views) < MaxViews
    /\ LET r == get_range(cdata, start, end) IN
         /\ views' = IF r.tag = "Some" THEN Borrowed(views, r.view) ELSE views
         /\ ret' = Ret("get_range", start, end, r.tag, r.view.len, r.view)
    /\ calls' = <<>>
    /\ UNCHANGED <<heap, obj, buf, cdata, ub, uaf>>

\* The end of the container's lifetime (the Vec frees its own storage).
DataContainer_drop ==
    /\ obj = "container"
    /\ CanBorrow(Recv_drop)
    /\ obj' = "none"
    /\ cdata' = <<>>
    /\ ret' = Ret("container_drop", 0, 0, "Unit", 0, NoView)
    /\ calls' = <<>>
    /\ UNCHANGED <<heap, buf, views, ub, uaf>>

\* --------------------------------------------------------------- using views

\* Whether the memory element k of view v refers to still belongs to its source.
ViewTargetLive(v, k) ==
    IF v.src = "buffer"
    THEN RawValid(heap, v.ptr, v.start + k)
    ELSE obj = "container" /\ v.start + k < Len(cdata)

\* The values a read of element k of view v can yield.
ViewElem(v, k) ==
    IF ~ViewTargetLive(v, k) THEN I32Sample \cup (1..MaxLenWide)
    ELSE IF v.src = "buffer" THEN {heap[v.ptr].cells[v.start + k + 1]}
    ELSE {cdata[v.start + k + 1]}

\* slice[k]: a read through the view v (an index outside the slice panics).
ReadView(v, k) ==
    /\ BagIn(v, views)
    /\ k < v.len
    /\ \E x \in ViewElem(v, k) :
         ret' = Ret("view_read", k, 0, "Value", x, v)
    /\ uaf' = (uaf \/ ~ViewTargetLive(v, k))
    /\ calls' = <<>>
    /\ UNCHANGED <<heap, obj, buf, cdata, views, ub>>

\* slice[k] = x: a write through the exclusive view v.
WriteView(v, k, x) ==
    /\ BagIn(v, views)
    /\ v.kind = "mut"
    /\ k < v.len
    /\ uaf' = (uaf \/ ~ViewTargetLive(v, k))
    /\ IF ~ViewTargetLive(v, k)
       THEN UNCHANGED <<heap, cdata>>
       ELSE IF v.src = "buffer"
            THEN /\ heap' = [heap EXCEPT ![v.ptr].cells[v.start + k + 1] = x]
                 /\ UNCHANGED cdata
            ELSE /\ cdata' = [cdata EXCEPT ![v.start + k + 1] = x]
                 /\ UNCHANGED heap
    /\ ret' = Ret("view_write", k, x, "Unit", 0, v)
    /\ calls' = <<>>
    /\ UNCHANGED <<obj, buf, views, ub>>

\* The last use of the view v has passed: its borrow ends.
ReleaseView(v) ==
    /\ BagIn(v, views)
    /\ views' = Released(views, v)
    /\ ret' = Ret("release", 0, 0, "Unit", 0, v)
    /\ calls' = <<>>
    /\ UNCHANGED <<heap, obj, buf, cdata, ub, uaf>>

\* ------------------------------------------------------------ specifications

\* vec![1, 2, ..., n]
Iota(n) == [i \in 1..n |-> i]

Init ==
    /\ heap = <<>>
    /\ obj = "none"
    /\ buf = NoBuf
    /\ cdata = <<>>
    /\ views = EmptyBag
    /\ ret = Ret("start", 0, 0, "Unit", 0, NoView)
    /\ calls = <<>>
    /\ ub = FALSE
    /\ uaf = FALSE

Next ==
    \/ \E len \in (0..MaxLen) \cup {UsizeMax} : SafeBuffer_new(len)
    \/ SafeBuffer_len
    \/ SafeBuffer_is_empty
    \/ \E index \in UsizeSample(MaxLen) : SafeBuffer_get(index)
    \/ \E index \in UsizeSample(MaxLen), value \in I32Sample : SafeBuffer_set(index, value)
    \/ SafeBuffer_as_slice
    \/ SafeBuffer_as_mut_slice
    \/ \E start, len \in UsizeSample(MaxLen) : SafeBuffer_get_slice(start, len)
    \/ SafeBuffer_drop
    \/ \E n \in 0..MaxLen : DataContainer_new(Iota(n))
    \/ DataContainer_len
    \/ DataContainer_as_slice
    \/ DataContainer_first_half
    \/ DataContainer_last_half
    \/ DataContainer_first_half_mut
    \/ \E start, end \in UsizeSample(MaxLen) : DataContainer_get_range(start, end)
    \/ DataContainer_drop
    \/ \E v \in BagToSet(views), k \in 0..MaxLen : ReadView(v, k)
    \/ \E v \in BagToSet(views), k \in 0..MaxLen, x \in I32Sample : WriteView(v, k, x)
    \/ \E v \in BagToSet(views) : ReleaseView(v)

Spec == Init /\ [][Next]_vars

\* propagation_chain: level1_unsafe is raw_alloc(1); level2_unsafe and
\* level3_propagate forward to it.
level1_unsafe(h) == raw_alloc(h, 1)

level2_unsafe(h) == level1_unsafe(h)

\* propagation_chain::level3_suppress: a safe public function returning the
\* pointer of unsafe { level2_unsafe() } to its caller.
level3_suppress ==
    /\ Len(heap) < MaxAllocs
    /\ \E r \in level2_unsafe(heap) :
         /\ heap' = r.heap
         /\ ret' = Ret("level3_suppress", 0, 0, r.tag, r.ptr, NoView)
         /\ calls' = <<Call("raw_alloc", r.ptr, 0, 1)>>
         /\ ub' = (ub \/ r.ub)
    /\ UNCHANGED <<obj, buf, cdata, views, uaf>>

\* What code without an unsafe block can call on the raw-allocation side: the
\* SafeBuffer methods, the use of the slices they return, and level3_suppress
\* (a DataContainer holds a Vec and no raw allocation), one slice at a time.
NextSurface ==
    \/ \E len \in (0..MaxLen) \cup {UsizeMax} : SafeBuffer_new(len)
    \/ SafeBuffer_len
    \/ SafeBuffer_is_empty
    \/ \E index \in 0..MaxLen : SafeBuffer_get(index)
    \/ \E index \in 0..MaxLen, value \in I32Sample : SafeBuffer_set(index, value)
    \/ views = EmptyBag /\ SafeBuffer_as_slice
    \/ views = EmptyBag /\ SafeBuffer_as_mut_slice
    \/ views = EmptyBag /\ \E start, len \in 0..MaxLen : SafeBuffer_get_slice(start, len)
    \/ SafeBuffer_drop
    \/ \E v \in BagToSet(views), k \in 0..MaxLen : ReadView(v, k)
    \/ \E v \in BagToSet(views), k \in 0..MaxLen, x \in I32Sample : WriteView(v, k, x)
    \/ \E v \in BagToSet(views) : ReleaseView(v)
    \/ level3_suppress

SpecSurface == Init /\ [][NextSurface]_vars

\* The view operations on objects of up to MaxLenWide elements holding
\* 1, 2, ..., n (vec![1, ..., 10] of demonstrate_returning_slices; a buffer
\* after new(n) and set(i, i + 1) for every i), one view at a time.
InitViews ==
    /\ \E n \in 0..MaxLenWide :
         \/ /\ n > 0
            /\ LayoutOk(n)
            /\ obj = "buffer"
            /\ heap = <<AllocRec(n, Iota(n))>>
            /\ buf = [ptr |-> 1, len |-> n]
            /\ cdata = <<>>
         \/ /\ obj = "container"
            /\ heap = <<>>
            /\ buf = NoBuf
            /\ cdata = Iota(n)
    /\ views = EmptyBag
    /\ ret = Ret("start", 0, 0, "Unit", 0, NoView)
    /\ calls = <<>>
    /\ ub = FALSE
    /\ uaf = FALSE

NextViews ==
    \/ /\ views = EmptyBag
       /\ \/ \E index \in UsizeSample(MaxLenWide) : SafeBuffer_get(index)
          \/ SafeBuffer_as_slice
          \/ \E start, len \in UsizeSample(MaxLenWide) : SafeBuffer_get_slice(start, len)
          \/ DataContainer_as_slice
          \/ DataContainer_first_half
          \/ DataContainer_last_half
          \/ \E start, end \in UsizeSample(MaxLenWide) : DataContainer_get_range(start, end)
    \/ \E v \in BagToSet(views), k \in 0..MaxLenWide : ReadView(v, k)
    \/ \E v \in BagToSet(views) : ReleaseView(v)

SpecViews == InitViews /\ [][NextViews]_vars

\* -------------------------------------------------------------------- claims

Cells == heap[buf.ptr].cells

\* C1: immediately after SafeBuffer::new(len) returns a buffer (len > 0), the
\* buffer has that length, every element of the allocation has been written
\* with zero, and get(i) returns Some(0) for every i in [0, len).
C1_ZeroAfterNew ==
    (ret.op = "new" /\ ret.tag = "Ok") =>
        /\ obj = "buffer"
        /\ ret.a > 0
        /\ buf.len = ret.a
        /\ \A i \in 0..(buf.len - 1) :
             /\ \A r \in get(heap, buf, i) : r.tag = "Some" /\ r.val = 0
             /\ \E j \in 1..Len(calls) :
                  calls[j] = Call("write", buf.ptr, i, 0) /\ calls[1].fn = "raw_alloc"

C1_Witness ==
    /\ ret.op = "new"
    /\ ret.tag = "Ok"
    /\ buf.len = MaxLen
    /\ Len(heap) = MaxAllocs

\* C2: in every state of a live SafeBuffer, for every index >= len, get(index)
\* is None and set(index, v) is Err for every v, and neither issues a raw call
\* or panics; the calls the program made behaved so.
C2_OutOfRange ==
    obj = "buffer" =>
        /\ \A index \in UsizeSample(MaxLen) : index >= buf.len =>
             /\ \A r \in get(heap, buf, index) :
                  r.tag = "None" /\ r.calls = <<>> /\ ~r.ub
             /\ \A v \in I32Sample : \A r \in set(heap, buf, index, v) :
                  r.tag = "Err" /\ r.calls = <<>> /\ ~r.ub
        /\ (ret.op = "get" /\ ret.a >= buf.len) => (ret.tag = "None" /\ calls = <<>>)
        /\ (ret.op = "set" /\ ret.a >= buf.len) => (ret.tag = "Err" /\ calls = <<>>)
        /\ ret.op \in {"get", "set"} => ~ub

C2_Witness ==
    /\ obj = "buffer"
    /\ ret.op = "get"
    /\ ret.a = buf.len
    /\ ret.tag = "None"
    /\ \E i \in 1..buf.len : Cells[i] # 0

\* C3: a set(index, v) with index < len on a live buffer returns Ok, a following
\* get(index) returns Some(v), get(j) for every other j < len returns what it
\* returned before, and the length is unchanged.
C3_SetThenGet ==
    [][(obj = "buffer" /\ ret'.op = "set" /\ ret'.a < buf.len) =>
         /\ ret'.tag = "Ok"
         /\ obj' = "buffer"
         /\ buf'.len = buf.len
         /\ \A r \in get(heap', buf', ret'.a) : r.tag = "Some" /\ r.val = ret'.b
         /\ \A j \in 0..(buf.len - 1) : j # ret'.a =>
              {[tag |-> r.tag, val |-> r.val] : r \in get(heap', buf', j)}
                = {[tag |-> r.tag, val |-> r.val] : r \in get(heap, buf, j)}]_vars

C3_Witness ==
    /\ obj = "buffer"
    /\ ret.op = "set"
    /\ ret.tag = "Ok"
    /\ ret.a = 0
    /\ ret.b = 1
    /\ buf.len = MaxLen
    /\ Cells[1] = 1
    /\ Cells[MaxLen] = 0

\* C4: a set(index, v) with index >= len returns Err and changes nothing: the
\* heap (every element) and the buffer's fields are as before, and no raw call
\* was issued.
C4_FailedSetNoChange ==
    [][(obj = "buffer" /\ ret'.op = "set" /\ ret'.a >= buf.len) =>
         /\ ret'.tag = "Err"
         /\ heap' = heap
         /\ buf' = buf
         /\ obj' = obj
         /\ calls' = <<>>]_vars

C4_Witness ==
    /\ obj = "buffer"
    /\ ret.op = "set"
    /\ ret.tag = "Err"
    /\ ret.a = buf.len
    /\ ret.b = 1
    /\ \E i \in 1..buf.len : Cells[i] # 0

\* C5: every allocation is live with no free while the buffer owning it is
\* alive, and once that buffer's lifetime has ended it has been freed exactly
\* once, with the count it was allocated with (the buffer's len); the drop
\* issues that one raw_dealloc(ptr, len).
C5_FreedExactlyOnce ==
    /\ \A p \in 1..Len(heap) :
         IF obj = "buffer" /\ buf.ptr = p
         THEN heap[p].state = "live" /\ heap[p].frees = 0 /\ heap[p].count = buf.len
         ELSE /\ heap[p].state = "freed"
              /\ heap[p].frees = 1
              /\ heap[p].sizeOk
    /\ obj = "buffer" => buf.ptr \in 1..Len(heap)
    /\ ret.op = "drop" =>
         /\ calls = <<Call("raw_dealloc", ret.a, 0, ret.b)>>
         /\ heap[ret.a].frees = 1
         /\ heap[ret.a].sizeOk

C5_Witness ==
    /\ ret.op = "drop"
    /\ Len(heap) = MaxAllocs
    /\ \A p \in 1..Len(heap) : heap[p].frees = 1 /\ heap[p].sizeOk
    /\ ret.b = MaxLen

\* C6: SafeBuffer::get_slice(start, len) is None whenever the mathematical sum
\* start + len exceeds the buffer's length, also when the sum exceeds
\* usize::MAX (it does not wrap into an accepted range); it issues no raw call
\* then and its only results are Some and None.
C6_NoWrapAround ==
    obj = "buffer" =>
        /\ \A start, len \in UsizeSample(MaxLen) :
             /\ get_slice(buf, start, len).tag \in {"Some", "None"}
             /\ start + len > buf.len =>
                  /\ get_slice(buf, start, len).tag = "None"
                  /\ get_slice(buf, start, len).calls = <<>>
        /\ (ret.op = "get_slice" /\ ret.a + ret.b > buf.len) =>
             /\ ret.tag = "None"
             /\ ret.view = NoView
             /\ calls = <<>>

C6_Witness ==
    /\ obj = "buffer"
    /\ ret.op = "get_slice"
    /\ ret.a + ret.b > UsizeMax
    /\ (ret.a + ret.b) % (UsizeMax + 1) <= buf.len
    /\ ret.tag = "None"

\* C7: SafeBuffer::get_slice(start, count) returns a view of length count whose
\* k-th element is the buffer's element start + k when start + count <= len,
\* and None otherwise; on a 10-element buffer get_slice(2, 6) is a view of the
\* 6 elements at indices 2..8 and get_slice(7, 6) is None.  A read through the
\* returned view yields the buffer's element.
C7_SubRange ==
    obj = "buffer" =>
        /\ ret.op = "get_slice" =>
             IF ret.a + ret.b <= buf.len
             THEN /\ ret.tag = "Some"
                  /\ ret.view.kind = "shared"
                  /\ ret.view.len = ret.b
                  /\ BagIn(ret.view, views)
                  /\ \A k \in 0..(ret.b - 1) :
                       /\ ViewElem(ret.view, k) = {Cells[ret.a + k + 1]}
                       /\ \A r \in get(heap, buf, ret.a + k) :
                            r.tag = "Some" /\ ViewElem(ret.view, k) = {r.val}
             ELSE ret.tag = "None" /\ ret.view = NoView
        /\ (ret.op = "get_slice" /\ buf.len = 10 /\ ret.a = 2 /\ ret.b = 6) =>
             /\ ret.tag = "Some"
             /\ ret.view.len = 6
             /\ {ret.view.start + k : k \in 0..(ret.view.len - 1)} = 2..7
             /\ \A k \in 0..5 : ViewElem(ret.view, k) = {Cells[2 + k + 1]}
        /\ (ret.op = "get_slice" /\ buf.len = 10 /\ ret.a = 7 /\ ret.b = 6) =>
             ret.tag = "None"
        /\ (ret.op = "view_read" /\ ret.view.src = "buffer") =>
             ret.val = Cells[ret.view.start + ret.a + 1]

C7_Witness ==
    /\ obj = "buffer"
    /\ buf.len = 10
    /\ ret.op = "view_read"
    /\ ret.view = View("shared", "buffer", buf.ptr, 2, 6, TRUE)
    /\ ret.a = 5
    /\ ret.val = 8

\* C8: for a container of any length n, first_half covers [0, n/2) and
\* last_half covers [n/2, n) with n/2 rounded down: the two ranges are
\* disjoint, together they are [0, n), their lengths sum to n, and for odd n
\* the first half is the shorter one.
C8_Halves ==
    obj = "container" =>
        LET n == Len(cdata)
            f == first_half(cdata)
            l == last_half(cdata)
            Range(v) == {v.start + k : k \in 0..(v.len - 1)}
        IN /\ f.start = 0
           /\ 2 * f.len <= n
           /\ n <= 2 * f.len + 1
           /\ l.start = f.len
           /\ f.len + l.len = n
           /\ Range(f) \cap Range(l) = {}
           /\ Range(f) \cup Range(l) = 0..(n - 1)
           /\ (n % 2 = 1) => f.len < l.len
           /\ (n % 2 = 0) => f.len = l.len
           /\ ret.op = "first_half" => ret.view = f /\ BagIn(f, views)
           /\ ret.op = "last_half" => ret.view = l /\ BagIn(l, views)
           /\ (ret.op = "view_read" /\ ret.view.src = "container") =>
                ret.val = cdata[ret.view.start + ret.a + 1]

C8_Witness ==
    /\ obj = "container"
    /\ Len(cdata) = 7
    /\ ret.op = "view_read"
    /\ ret.view = last_half(cdata)
    /\ ret.a = 0
    /\ ret.val = 4

\* C9: an exclusive view (as_mut_slice, first_half_mut) is never alive together
\* with any other view of the same object.
C9_Exclusive ==
    \A v \in BagToSet(views) : v.kind = "mut" => BagCardinality(views) = 1

C9_Witness ==
    /\ BagCardinality(views) = 1
    /\ BagIn(as_mut_slice(buf), views)
    /\ obj = "buffer"
    /\ ret.op = "view_write"
    /\ ret.b = 1

\* C10: no view is used after its source was destroyed: no use of a view has
\* touched destroyed memory, every view alive covers elements of the object
\* alive now, and no allocation is alive but that of the buffer alive now (a
\* view keeps no allocation alive).
C10_NoUseAfterFree ==
    /\ ~uaf
    /\ \A v \in BagToSet(views) :
           /\ v.src = "buffer" =>
                /\ obj = "buffer"
                /\ v.ptr = buf.ptr
                /\ heap[v.ptr].state = "live"
                /\ v.start + v.len <= heap[v.ptr].count
           /\ v.src = "container" =>
                /\ obj = "container"
                /\ v.start + v.len <= Len(cdata)
    /\ \A p \in 1..Len(heap) :
         heap[p].state = "live" => (obj = "buffer" /\ buf.ptr = p)
    /\ (obj # "buffer" /\ obj # "container") => views = EmptyBag

C10_Witness ==
    /\ ret.op = "drop"
    /\ Len(heap) = MaxAllocs
    /\ heap[Len(heap)].state = "freed"
    /\ views = EmptyBag
    /\ ~uaf

\* C11: SafeBuffer::new(0) panics, leaving no buffer and no allocation (it
\* issues no raw call and the heap is as before); every buffer alive has
\* len > 0, equal to its allocation's count; len() returns it, is_empty() is
\* false, and len does not change while the buffer is alive.
C11_LenPositive ==
    /\ [](obj = "buffer" => (buf.len > 0 /\ heap[buf.ptr].count = buf.len))
    /\ [](ret.op = "is_empty" => ret.tag = "False")
    /\ [](ret.op = "len" => (ret.val = buf.len /\ ret.val > 0))
    /\ []((ret.op = "new" /\ ret.a = 0) =>
            (ret.tag = "Panic" /\ calls = <<>> /\ obj = "none" /\ buf = NoBuf))
    /\ [][(ret'.op = "new" /\ ret'.a = 0) =>
            (heap' = heap /\ obj' = obj /\ buf' = buf)]_vars
    /\ [][(obj = "buffer" /\ obj' = "buffer") => buf' = buf]_vars

C11_Witness ==
    /\ ret.op = "new"
    /\ ret.a = 0
    /\ ret.tag = "Panic"
    /\ Len(heap) = 1
    /\ heap[1].state = "freed"

\* C12 as claimed: every allocation alive is owned by the buffer alive now (no
\* operation of safe code yields an allocation that no buffer owns).
C12_AllOwned ==
    \A p \in 1..Len(heap) :
        heap[p].state = "live" => (obj = "buffer" /\ buf.ptr = p)

\* C12 as amended: safe code creates an allocation only in SafeBuffer::new,
\* owned by the buffer new returns, or in propagation_chain::level3_suppress,
\* one element owned by no buffer; an allocation is destroyed only by the drop
\* of the buffer owning it, which frees it; an allocation of level3_suppress
\* is never released by safe code.
C12_OwnedOrSuppressed ==
    /\ [][Len(heap') # Len(heap) =>
            /\ Len(heap') = Len(heap) + 1
            /\ \A p \in 1..Len(heap) : heap'[p] = heap[p]
            /\ \/ /\ ret'.op = "new"
                  /\ obj = "none"
                  /\ obj' = "buffer"
                  /\ buf'.ptr = Len(heap')
                  /\ heap'[Len(heap')].count = buf'.len
               \/ /\ ret'.op = "level3_suppress"
                  /\ ret'.val = Len(heap')
                  /\ heap'[Len(heap')].count = 1
                  /\ heap'[Len(heap')].state = "live"
                  /\ obj' = obj
                  /\ buf' = buf]_vars
    /\ [][\A p \in 1..Len(heap) :
            (heap[p].state = "live" /\ heap'[p].state # "live") =>
                (ret'.op = "drop" /\ obj = "buffer" /\ buf.ptr = p /\ obj' = "none")]_vars
    /\ [][(obj = "buffer" /\ obj' # "buffer") =>
            (ret'.op = "drop" /\ heap'[buf.ptr].state = "freed"
               /\ heap'[buf.ptr].frees = 1)]_vars
    /\ [](obj = "buffer" => (buf.ptr \in 1..Len(heap) /\ heap[buf.ptr].state = "live"))

C12_Witness ==
    /\ Len(heap) = 2
    /\ heap[1].state = "live"
    /\ heap[1].count = 1
    /\ heap[2].state = "freed"
    /\ obj = "none"
    /\ ret.op = "drop"

\* C13 as claimed: when the allocator returns null for a valid request made by
\* SafeBuffer::new, new hands its caller an absent value or an error result.
C13_ExhaustionIsResult ==
    (/\ ret.op = "new"
     /\ ret.a > 0
     /\ LayoutOk(ret.a)
     /\ calls # <<>>
     /\ calls[1] = Call("raw_alloc", NULL, 0, ret.a)) =>
        ret.tag \in {"None", "Err"}

\* C13 as amended: when the allocator returns null for a valid request made by
\* SafeBuffer::new, new panics ("Allocation failed"): no buffer exists, nothing
\* was allocated or written, and no undefined behaviour was triggered; a new
\* that returns gives a buffer over a non-null live allocation.
C13_ExhaustionPanics ==
    /\ (/\ ret.op = "new"
        /\ ret.a > 0
        /\ LayoutOk(ret.a)
        /\ calls # <<>>
        /\ calls[1] = Call("raw_alloc", NULL, 0, ret.a)) =>
           /\ ret.tag = "Panic"
           /\ calls = <<Call("raw_alloc", NULL, 0, ret.a)>>
           /\ obj = "none"
           /\ buf = NoBuf
           /\ \A p \in 1..Len(heap) : heap[p].state = "freed"
           /\ ~ub
    /\ (ret.op = "new" /\ ret.tag = "Ok") =>
           /\ obj = "buffer"
           /\ buf.ptr # NULL
           /\ buf.ptr \in 1..Len(heap)
           /\ heap[buf.ptr].state = "live"
    /\ ret.op = "new" => ret.tag \in {"Ok", "Panic"}

C13_Witness ==
    /\ ret.op = "new"
    /\ ret.a = MaxLen
    /\ ret.tag = "Panic"
    /\ calls = <<Call("raw_alloc", NULL, 0, MaxLen)>>
    /\ Len(heap) = 1
    /\ heap[1].frees = 1

\* C14: every raw-layer call a SafeBuffer operation issues meets the raw
\* layer's precondition in the state it is issued in: raw_alloc has count > 0;
\* a zeroing write hits an offset below the count of the allocation just made;
\* unsafe_read and unsafe_write hit an offset below the count of an allocation
\* that is not freed; from_raw_parts(_mut) covers offsets inside [0, count) of
\* such an allocation; raw_dealloc gets a live allocation and the count it was
\* allocated with; and no undefined behaviour has been triggered.
C14_RawPreconditions ==
    /\ [][ret'.op \in {"new", "get", "set", "as_slice", "as_mut_slice",
                       "get_slice", "drop"} =>
            \A i \in 1..Len(calls') :
               LET c == calls'[i] IN
               /\ c.fn \in {"raw_alloc", "write", "unsafe_read", "unsafe_write",
                            "from_raw_parts", "from_raw_parts_mut", "raw_dealloc"}
               /\ c.fn = "raw_alloc" => (c.count > 0 /\ i = 1)
               /\ c.fn = "write" =>
                    /\ calls'[1].fn = "raw_alloc"
                    /\ c.ptr = calls'[1].ptr
                    /\ RawValid(heap', c.ptr, c.off)
                    /\ heap'[c.ptr].count = calls'[1].count
               /\ c.fn \in {"unsafe_read", "unsafe_write"} =>
                    (obj = "buffer" /\ c.ptr = buf.ptr /\ RawValid(heap, c.ptr, c.off))
               /\ c.fn \in {"from_raw_parts", "from_raw_parts_mut"} =>
                    /\ obj = "buffer"
                    /\ c.ptr = buf.ptr
                    /\ c.ptr \in 1..Len(heap)
                    /\ heap[c.ptr].state = "live"
                    /\ c.off >= 0
                    /\ c.count >= 0
                    /\ c.off + c.count <= heap[c.ptr].count
               /\ c.fn = "raw_dealloc" =>
                    /\ obj = "buffer"
                    /\ c.ptr = buf.ptr
                    /\ DeallocValid(heap, c.ptr, c.count)
                    /\ heap'[c.ptr].frees = 1
                    /\ heap'[c.ptr].sizeOk]_vars
    /\ []~ub

C14_Witness ==
    /\ ret.op = "get_slice"
    /\ ret.tag = "Some"
    /\ ret.a = 1
    /\ ret.b = MaxLen - 1
    /\ calls = <<Call("from_raw_parts", buf.ptr, 1, MaxLen - 1)>>
    /\ buf.ptr = MaxAllocs
    /\ ~ub

====
